---- MODULE Spec2Model ----
(***************************************************************************)
(* Heartbeat / healthcheck coordination of background-healthcheck.         *)
(*                                                                         *)
(* Two processes share one data directory:                                 *)
(*   - the task process owns ModuleHeartbeat instances (the emitters);     *)
(*     signal() writes <sha256(moduleName)>.beat holding a fresh token;    *)
(*   - the checker process runs healthcheck(staleInterval), which lists    *)
(*     the directory, reads each module's .beat and .check file, writes    *)
(*     or deletes .check files and returns 0 or 1.                         *)
(*                                                                         *)
(* One action is one turn of a process's event loop: the callback of a     *)
(* completed I/O operation (or the synchronous part of a call) together    *)
(* with every promise continuation it triggers.  Time is a global clock    *)
(* in abstract ticks of 1000 ms; both performance.now() and Date.now()     *)
(* read it.                                                                *)
(* Tokens (crypto.randomBytes(16)) are modelled as fresh values: the n-th  *)
(* write of emitter e carries token <<e, n>>.                              *)
(*                                                                         *)
(* signalWhile() and sleep() call signal() in the middle of a turn: their  *)
(* continuations are steps of their own, which run before the clock        *)
(* advances and before any other callback of the process (SwRunnable,      *)
(* SlRunnable).                                                            *)
(***************************************************************************)
EXTENDS Integers, Sequences, FiniteSets, TLC

\* ------------------------------------------------------------- bounds
MaxTime == 3          \* the clock runs 0..MaxTime
MaxCalls == 3         \* signal() calls issued in one behaviour
MaxInterval == 2      \* debounce intervals 0..MaxInterval ticks
MaxStale == 2         \* staleInterval arguments 0..MaxStale ticks
MaxRuns == 2          \* healthcheck() invocations in one behaviour
MaxAppRuns == 2       \* index.ts healthcheck() invocations in one behaviour
MaxBeats == 2         \* index.ts heartbeat tokens written in one behaviour
MaxCheckedCalls == 2  \* signal() calls issued while the checker runs
MaxLiveCalls == 2     \* signal() calls issued beside the periodic checker
MaxAtomicWrites == 3  \* writeFileAtomic calls on one heartbeat file
RecordLen == 2        \* pieces in which a record is written and read

Emitters == {"e1", "e2"}
Modules == {"A", "B"}

\* ------------------------------------------------------------- values
Undefined == -1       \* an interval that was omitted
Negative == -2        \* a negative number
NaN == -3             \* Number.NaN
NoTime == -1          \* _lastHeartbeatTimestamp == undefined
NoWrite == 0          \* _currentHeartbeat == undefined; write n of the emitter otherwise
NoFile == [missing |-> TRUE]      \* ENOENT: readFileJson returns undefined
Pending == [pending |-> TRUE]     \* a read that has not completed yet
NoModule == "-"

BeatExt == "beat"
CheckExt == "check"
FileNames == Modules \X {BeatExt, CheckExt}

VARIABLES
    now,                      \* the clock
    dirExists,                \* whether the data directory exists
    files,                    \* file name -> content, or NoFile
    moduleName,               \* emitter -> its module name (readonly field)
    interval,                 \* emitter -> _interval
    currentHeartbeat,         \* emitter -> _currentHeartbeat (a write, or NoWrite)
    lastHeartbeatTimestamp,   \* emitter -> _lastHeartbeatTimestamp
    writes,                   \* emitter -> phases of the writes it started, in order
    calls,                    \* emitter -> its signal() calls, in issue order
    lastCallAt,               \* emitter with an interval > 0 -> when its latest signal() call was issued
    lastSuccessAt,            \* emitter -> when its latest successful write completed
    hcPc,                     \* position of the healthcheck() invocation
    hcStale,                  \* its staleInterval argument
    hcListed,                 \* the file names listHeartbeatFiles returned
    hcTodo,                   \* base names the generator has not reached yet
    hcCur,                    \* base name being processed
    hcBeat,                   \* result of reading its .beat file
    hcCheck,                  \* result of reading its .check file
    hcPayload,                \* payload of the .check write in flight
    hcVerdict,                \* base name -> what isModuleHealthy returned in this invocation
    hcResult,                 \* the local `result`; the value returned once hcPc = "returned"
    hcFault,                  \* an I/O operation of this invocation failed
    hcRuns,                   \* invocations started so far
    ctorArg,                  \* emitter -> the interval argument of its constructor
    setterArg,                \* emitter -> the value latest assigned to `interval`
    setterThrew,              \* emitter -> its latest assignment to `interval` raised
    stopped,                  \* emitter -> a stop() call on it has resolved
    action,                   \* the promise handed to signalWhile
    swPc,                     \* position of the signalWhile invocation
    swTimeout,                \* its timeout argument
    swBegan,                  \* when it was called
    swStart,                  \* its local `start`
    swDue,                    \* when its timer is due
    swCall,                   \* the signal() call it awaits (index in calls)
    swResult,                 \* its local `result`, what Promise.race returned
    swOutcome,                \* how it settled
    swSignalAt,               \* when it issued each of its signal() calls
    slPc,                     \* position of the sleep invocation
    slArg,                    \* its argument
    slMs,                     \* its local `ms`
    slWait,                   \* its local `wait`
    slWaits,                  \* the chunks it has waited, in order
    slDue,                    \* when its timer is due
    slCall,                   \* the signal() call it awaits (index in calls)
    slSignals,                \* signal() calls it has issued
    dirEntry,                 \* path of the heartbeat file or of its temporary -> inode, 0 if none
    written,                  \* inode -> pieces of its record written so far
    awPc,                     \* position of the writeFileAtomic call
    awN,                      \* writeFileAtomic calls started; call n writes inode n
    rdPc,                     \* position of the readFile call
    rdInode,                  \* the inode it opened, 0 if none
    rdBuf,                    \* the pieces it has read
    heartbeatFile,            \* index.ts: content of heartbeat.json, or NoFile
    appCurrentHeartbeat,      \* index.ts: currentHeartbeat != null
    appLastHeartbeatTimestamp,\* index.ts: lastHeartbeatTimestamp
    lastSeenFile,             \* index.ts: content of heartbeat-check.json, or NoFile
    lastSeenWrittenAt,        \* when heartbeat-check.json was last written
    timeOrigin,               \* when the process that runs healthcheck() started
    ahPc,                     \* position of the index.ts healthcheck() invocation
    ahStale,                  \* its staleInterval argument
    ahCurrent,                \* its local `current`
    ahLastSeen,               \* its local `lastSeen`
    ahPayload,                \* the record it is writing
    ahResult,                 \* the exit code it returned
    ahRuns                    \* invocations started so far

emitterVars == <<moduleName, interval, currentHeartbeat, lastHeartbeatTimestamp,
                 writes, calls, lastCallAt, lastSuccessAt>>
hcVars == <<hcPc, hcStale, hcListed, hcTodo, hcCur, hcBeat, hcCheck, hcPayload,
            hcVerdict, hcResult, hcFault, hcRuns>>
swVars == <<action, swPc, swTimeout, swBegan, swStart, swDue, swCall, swResult,
            swOutcome, swSignalAt>>
slVars == <<slPc, slArg, slMs, slWait, slWaits, slDue, slCall, slSignals>>
fsVars == <<dirEntry, written, awPc, awN, rdPc, rdInode, rdBuf>>
appVars == <<heartbeatFile, appCurrentHeartbeat, appLastHeartbeatTimestamp,
             lastSeenFile, lastSeenWrittenAt, timeOrigin, ahPc, ahStale, ahCurrent,
             ahLastSeen, ahPayload, ahResult, ahRuns>>
helperVars == <<ctorArg, setterArg, setterThrew, stopped, swVars, slVars, fsVars,
                appVars>>
vars == <<now, dirExists, files, emitterVars, hcVars, helperVars>>

\* ------------------------------------------------------------- helpers
\* sha256(moduleName): the base name of the module's files (injective).
sha256(name) == name

\* this._fileName
HeartbeatFile(e) == <<sha256(moduleName[e]), BeatExt>>

\* performance.now() in the task process.
PerformanceNow == now

\* Date.now() in the checker process.
DateNow == now

WritesOf(e) == 1..Len(writes[e])
InFlight(e) == {w \in WritesOf(e) : writes[e][w] \in {"mkdir", "atomic"}}
Settled(e) == {w \in WritesOf(e) : writes[e][w] \in {"ok", "failed"}}
Succeeded(e) == {w \in WritesOf(e) : writes[e][w] = "ok"}
CallsOf(e) == 1..Len(calls[e])
PendingCalls(e) == {c \in CallsOf(e) : calls[e][c].st = "pending"}
AwaitersOf(e, w) == {c \in CallsOf(e) : calls[e][c].w = w}
TotalCalls == Len(calls["e1"]) + Len(calls["e2"])

\* ------------------------------------------------------------- emitter
\* value != null && value < 0 (NaN < 0 is false)
IsNegative(v) == v # Undefined /\ v # NaN /\ v < 0

\* A setter without the NaN test.
NeverNaN(v) == FALSE

\* Number.isNaN(value)
IsNaN(v) == v = NaN

\* The interval setter: rejects negative and NaN values.
ValidInterval(v) == ~IsNegative(v) /\ ~IsNaN(v)

\* A debounce test that lets every call through.
AlwaysSignal(e) == TRUE

\* signal(): const shouldSignal = !this._interval || ... == null || ... <= now
\* A debounce that lets only the first heartbeat through.
FirstSignalOnly(e) == lastHeartbeatTimestamp[e] = NoTime

ShouldSignal(e) ==
    \/ interval[e] = Undefined \/ interval[e] = 0
    \/ lastHeartbeatTimestamp[e] = NoTime
    \/ lastHeartbeatTimestamp[e] + interval[e] <= PerformanceNow

\* A guard that never sees the write in flight.
NoConcurrentHeartbeat(e) == FALSE

\* signal(): if (this._currentHeartbeat != null) return await this._currentHeartbeat
HasConcurrentHeartbeat(e) == currentHeartbeat[e] # NoWrite

NewCall(kind, w, st) == [kind |-> kind, w |-> w, st |-> st]

\* A signal() call up to its first await.
Signal(e) ==
    /\ TotalCalls < MaxCalls
    /\ IF ~ShouldSignal(e)
       THEN /\ calls' = [calls EXCEPT
                           ![e] = Append(@, NewCall("skipped", NoWrite, "resolved"))]
            /\ UNCHANGED <<writes, currentHeartbeat>>
       ELSE IF HasConcurrentHeartbeat(e)
       THEN /\ calls' = [calls EXCEPT
                           ![e] = Append(@, NewCall("joined", currentHeartbeat[e],
                                                    "pending"))]
            /\ UNCHANGED <<writes, currentHeartbeat>>
       ELSE \* _writeHeartbeat() up to the mkdir inside writeFileJson
            /\ writes' = [writes EXCEPT ![e] = Append(@, "mkdir")]
            /\ currentHeartbeat' = [currentHeartbeat EXCEPT ![e] = Len(writes[e]) + 1]
            /\ calls' = [calls EXCEPT
                           ![e] = Append(@, NewCall("started", Len(writes[e]) + 1,
                                                    "pending"))]
    /\ lastCallAt' = IF interval[e] > 0 THEN [lastCallAt EXCEPT ![e] = now]
                      ELSE lastCallAt
    /\ UNCHANGED <<now, dirExists, files, moduleName, interval,
                   lastHeartbeatTimestamp, lastSuccessAt, hcVars, helperVars>>

\* writeFileJson: fs.promises.mkdir(dir, {recursive: true}) completed.
WriteMkdir(e, w) ==
    /\ w \in WritesOf(e)
    /\ writes[e][w] = "mkdir"
    /\ writes' = [writes EXCEPT ![e][w] = "atomic"]
    /\ dirExists' = TRUE
    /\ UNCHANGED <<now, files, moduleName, interval, currentHeartbeat,
                   lastHeartbeatTimestamp, calls, lastCallAt, lastSuccessAt, hcVars, helperVars>>

\* Only the call that started write w settles with it.
SettleInitiator(e, w, st) ==
    [calls EXCEPT ![e] =
        [c \in CallsOf(e) |->
            IF calls[e][c].w = w /\ calls[e][c].kind = "started"
            THEN [calls[e][c] EXCEPT !.st = st] ELSE calls[e][c]]]

\* Every call awaiting write w of e resolves or rejects with it.
SettleCalls(e, w, st) ==
    [calls EXCEPT ![e] =
        [c \in CallsOf(e) |->
            IF calls[e][c].w = w /\ calls[e][c].st = "pending"
            THEN [calls[e][c] EXCEPT !.st = st] ELSE calls[e][c]]]

\* signal(): finally { this._currentHeartbeat = undefined; } in the call that
\* started the write.
ClearedHeartbeat(e) == [currentHeartbeat EXCEPT ![e] = NoWrite]

\* _writeHeartbeat after writeFileJson returned:
\* this._lastHeartbeatTimestamp = performance.now()
TimestampAfterWrite(e) ==
    [lastHeartbeatTimestamp EXCEPT ![e] = PerformanceNow]

\* A failure path that advances the debounce clock all the same.
TimestampAdvanced(e) == [lastHeartbeatTimestamp EXCEPT ![e] = PerformanceNow]

\* _writeHeartbeat when writeFileJson throws: the assignment is not reached.
TimestampAfterFailure(e) == lastHeartbeatTimestamp

\* writeFileAtomic completed: the record is in place, then the continuations run.
WriteAtomic(e, w) ==
    /\ w \in WritesOf(e)
    /\ writes[e][w] = "atomic"
    /\ writes' = [writes EXCEPT ![e][w] = "ok"]
    /\ lastSuccessAt' = [lastSuccessAt EXCEPT ![e] = now]
    /\ files' = [files EXCEPT ![HeartbeatFile(e)] = [token |-> <<e, w>>]]
    /\ lastHeartbeatTimestamp' = TimestampAfterWrite(e)
    /\ currentHeartbeat' = ClearedHeartbeat(e)
    /\ calls' = SettleCalls(e, w, "resolved")
    /\ UNCHANGED <<now, dirExists, moduleName, interval, lastCallAt, hcVars, helperVars>>

\* mkdir or writeFileAtomic failed with a store I/O error.
WriteFail(e, w) ==
    /\ w \in WritesOf(e)
    /\ writes[e][w] \in {"mkdir", "atomic"}
    /\ writes' = [writes EXCEPT ![e][w] = "failed"]
    /\ lastHeartbeatTimestamp' = TimestampAfterFailure(e)
    /\ currentHeartbeat' = ClearedHeartbeat(e)
    /\ calls' = SettleCalls(e, w, "rejected")
    /\ UNCHANGED <<now, dirExists, files, moduleName, interval, lastCallAt,
                   lastSuccessAt, hcVars, helperVars>>

\* stop(): deleteFile(this._fileName), rm with force: true, which resolves
\* whether or not the file exists.
Stop(e) ==
    /\ files' = [files EXCEPT ![HeartbeatFile(e)] = NoFile]
    /\ stopped' = [stopped EXCEPT ![e] = TRUE]
    /\ UNCHANGED <<now, dirExists, emitterVars, hcVars, ctorArg, setterArg,
                   setterThrew, swVars, slVars, fsVars, appVars>>

\* set interval(value): throws on a negative or NaN value, assigns otherwise.
SetInterval(e, value) ==
    /\ setterArg' = [setterArg EXCEPT ![e] = value]
    /\ IF ValidInterval(value)
       THEN /\ interval' = [interval EXCEPT ![e] = value]
            /\ setterThrew' = [setterThrew EXCEPT ![e] = FALSE]
       ELSE /\ setterThrew' = [setterThrew EXCEPT ![e] = TRUE]
            /\ UNCHANGED interval
    /\ UNCHANGED <<now, dirExists, files, moduleName, currentHeartbeat,
                   lastHeartbeatTimestamp, writes, calls, lastCallAt, lastSuccessAt,
                   hcVars, ctorArg, stopped, swVars, slVars, fsVars, appVars>>

Tick ==
    /\ now < MaxTime
    /\ now' = now + 1
    /\ UNCHANGED <<dirExists, files, emitterVars, hcVars, helperVars>>

\* ------------------------------------------------------------- checker
BaseNames(listed) == {f[1] : f \in listed}

\* listHeartbeatFiles: readdir of the data directory.
ListHeartbeatFiles == {f \in FileNames : files[f] # NoFile}

\* healthcheck(staleInterval) up to the end of listHeartbeatFiles; readdir
\* rejects with ENOENT when the data directory does not exist.
HcBegin(stale) ==
    /\ hcPc \in {"idle", "returned", "threw"}
    /\ hcStale' = stale
    /\ hcResult' = 0
    /\ hcFault' = FALSE
    /\ hcVerdict' = [b \in Modules |-> "none"]
    /\ hcCur' = NoModule
    /\ hcBeat' = Pending
    /\ hcCheck' = Pending
    /\ hcPayload' = NoFile
    /\ IF dirExists
       THEN /\ hcListed' = ListHeartbeatFiles
            /\ hcTodo' = BaseNames(ListHeartbeatFiles)
            /\ hcPc' = "loop"
       ELSE /\ hcListed' = {}
            /\ hcTodo' = {}
            /\ hcPc' = "threw"
    /\ UNCHANGED <<now, dirExists, files, emitterVars, helperVars>>

\* One of at most MaxRuns invocations, each with a staleInterval of its own.
HcStart(stale) ==
    /\ hcRuns < MaxRuns
    /\ hcRuns' = hcRuns + 1
    /\ HcBegin(stale)

\* The periodic invocation of the container's HEALTHCHECK command: always
\* with the same staleInterval, and without a bound on the number of runs.
HcRepeat(stale) ==
    /\ hcRuns = 0 \/ stale = hcStale
    /\ hcRuns' = 1
    /\ HcBegin(stale)

\* getModuleHealthInfo: the next entry of `files`, in the order readdir gave.
HcNext(b) ==
    /\ hcPc = "loop"
    /\ b \in hcTodo
    /\ hcTodo' = hcTodo \ {b}
    /\ hcCur' = b
    /\ hcBeat' = Pending
    /\ hcCheck' = IF <<b, CheckExt>> \in hcListed THEN Pending ELSE NoFile
    /\ hcPc' = IF <<b, BeatExt>> \in hcListed THEN "reading" ELSE "deleting"
    /\ UNCHANGED <<now, dirExists, files, emitterVars, helperVars, hcStale, hcListed,
                   hcPayload, hcVerdict, hcResult, hcFault, hcRuns>>

\* readFileJson(f.heartbeatFileName) completed.
HcReadBeat ==
    /\ hcPc = "reading"
    /\ hcBeat = Pending
    /\ hcBeat' = files[<<hcCur, BeatExt>>]
    /\ UNCHANGED <<now, dirExists, files, emitterVars, helperVars, hcPc, hcStale, hcListed,
                   hcTodo, hcCur, hcCheck, hcPayload, hcVerdict, hcResult, hcFault,
                   hcRuns>>

\* readFileJson(f.healthcheckFileName) completed.
HcReadCheck ==
    /\ hcPc = "reading"
    /\ hcCheck = Pending
    /\ hcCheck' = files[<<hcCur, CheckExt>>]
    /\ UNCHANGED <<now, dirExists, files, emitterVars, helperVars, hcPc, hcStale, hcListed,
                   hcTodo, hcCur, hcBeat, hcPayload, hcVerdict, hcResult, hcFault,
                   hcRuns>>

\* A freshness test that takes every heartbeat for a new one.
IsAlwaysNew(heartbeat, healthcheck) == TRUE

\* A freshness test that only looks for a missing observation.
IsFirstContact(heartbeat, healthcheck) == healthcheck = NoFile

\* isModuleHealthy: healthcheck == null || heartbeat.token !== healthcheck.token
IsNewHeartbeat(heartbeat, healthcheck) ==
    healthcheck = NoFile \/ heartbeat.token # healthcheck.token

\* A staleness test that compares the timestamp itself, not the age.
TimestampBelowStaleInterval(healthcheck, staleInterval) ==
    healthcheck.timestamp < staleInterval

\* A staleness test that still accepts an age of exactly staleInterval.
WithinStaleIntervalInclusive(healthcheck, staleInterval) ==
    DateNow - healthcheck.timestamp <= staleInterval

\* isModuleHealthy: Date.now() - healthcheck.timestamp < staleInterval
WithinStaleInterval(healthcheck, staleInterval) ==
    DateNow - healthcheck.timestamp < staleInterval

\* An observation that records a token nobody wrote.
PayloadOfNobody(token) == [token |-> <<"e1", 0>>, timestamp |-> DateNow]

\* A payload that does not record when the token was observed.
PayloadWithoutTime(token) == [token |-> token, timestamp |-> 0]

\* writeModuleHealthcheck: the payload
HealthcheckPayload(token) == [token |-> token, timestamp |-> DateNow]

\* An aggregate that keeps only the verdict of the module judged last.
ResultOfLast(result, healthy) == IF healthy THEN 0 ELSE 1

\* healthcheck: if (!await isModuleHealthy(...)) result = 1
ResultAfter(result, healthy) == IF healthy THEN result ELSE 1

Verdict(healthy) == IF healthy THEN "healthy" ELSE "unhealthy"

\* A loop that returns at the first unhealthy module (`return 1`).
ReturnOnUnhealthy(healthy) == IF healthy THEN "loop" ELSE "returned"

\* healthcheck: after a module's verdict the for-await loop goes on, with
\* `result = 1` recorded if the module was unhealthy.
AfterVerdict(healthy) == "loop"

\* A missing heartbeat taken for an unhealthy module.
UnhealthyWhenMissing == FALSE

\* isModuleHealthy: if (heartbeat == null) return true
HealthyWhenMissing == TRUE

\* A cleanup that removes the heartbeat file of the module as well.
RemoveBoth(b) ==
    [files EXCEPT ![<<b, CheckExt>>] = NoFile, ![<<b, BeatExt>>] = NoFile]

\* Both reads completed: the module is yielded and isModuleHealthy runs up to
\* its return or to the write of the .check file.
HcJudge ==
    /\ hcPc = "reading"
    /\ hcBeat # Pending
    /\ hcCheck # Pending
    /\ IF hcBeat = NoFile
       THEN /\ hcVerdict' = [hcVerdict EXCEPT ![hcCur] = Verdict(HealthyWhenMissing)]
            /\ hcResult' = ResultAfter(hcResult, HealthyWhenMissing)
            /\ hcPc' = AfterVerdict(HealthyWhenMissing)
            /\ UNCHANGED hcPayload
       ELSE IF IsNewHeartbeat(hcBeat, hcCheck)
       THEN /\ hcPayload' = HealthcheckPayload(hcBeat.token)
            /\ hcPc' = "writing"
            /\ UNCHANGED <<hcVerdict, hcResult>>
       ELSE /\ hcVerdict' = [hcVerdict EXCEPT ![hcCur] =
                                Verdict(WithinStaleInterval(hcCheck, hcStale))]
            /\ hcResult' = ResultAfter(hcResult,
                                       WithinStaleInterval(hcCheck, hcStale))
            /\ hcPc' = AfterVerdict(WithinStaleInterval(hcCheck, hcStale))
            /\ UNCHANGED hcPayload
    /\ UNCHANGED <<now, dirExists, files, emitterVars, helperVars, hcStale, hcListed, hcTodo,
                   hcCur, hcBeat, hcCheck, hcFault, hcRuns>>

\* writeModuleHealthcheck completed (mkdir on the existing directory, then
\* writeFileAtomic); isModuleHealthy returns true.
HcWriteDone ==
    /\ hcPc = "writing"
    /\ files' = [files EXCEPT ![<<hcCur, CheckExt>>] = hcPayload]
    /\ hcVerdict' = [hcVerdict EXCEPT ![hcCur] = Verdict(TRUE)]
    /\ hcResult' = ResultAfter(hcResult, TRUE)
    /\ hcPayload' = NoFile
    /\ hcPc' = AfterVerdict(TRUE)
    /\ UNCHANGED <<now, dirExists, emitterVars, helperVars, hcStale, hcListed, hcTodo, hcCur,
                   hcBeat, hcCheck, hcFault, hcRuns>>

\* A cleanup that leaves the abandoned .check file in place.
KeepOrphan(b) == files

\* getModuleHealthInfo: the abandoned .check file of b is removed.
RemoveOrphan(b) == [files EXCEPT ![<<b, CheckExt>>] = NoFile]

\* getModuleHealthInfo: deleteFile(f.healthcheckFileName) completed.
HcDeleteDone ==
    /\ hcPc = "deleting"
    /\ files' = RemoveOrphan(hcCur)
    /\ hcPc' = "loop"
    /\ UNCHANGED <<now, dirExists, emitterVars, helperVars, hcStale, hcListed, hcTodo, hcCur,
                   hcBeat, hcCheck, hcPayload, hcVerdict, hcResult, hcFault, hcRuns>>

\* A read, write or delete of this invocation that is still in flight failed
\* with a store I/O error other than ENOENT: the error propagates out of
\* healthcheck().
HcIoError ==
    /\ hcPc \in {"reading", "writing", "deleting"}
    /\ hcPc = "reading" => (hcBeat = Pending \/ hcCheck = Pending)
    /\ hcPc' = "threw"
    /\ hcFault' = TRUE
    /\ hcCur' = NoModule
    /\ hcBeat' = Pending
    /\ hcCheck' = Pending
    /\ hcPayload' = NoFile
    /\ UNCHANGED <<now, dirExists, files, emitterVars, helperVars, hcStale, hcListed, hcTodo,
                   hcVerdict, hcResult, hcRuns>>

\* healthcheck: return result
HcReturn ==
    /\ hcPc = "loop"
    /\ hcTodo = {}
    /\ hcPc' = "returned"
    /\ hcCur' = NoModule
    /\ hcBeat' = Pending
    /\ hcCheck' = Pending
    /\ UNCHANGED <<now, dirExists, files, emitterVars, helperVars, hcStale, hcListed, hcTodo,
                   hcPayload, hcVerdict, hcResult, hcFault, hcRuns>>

\* ------------------------------------------------------------- signalWhile
\* The instance whose signalWhile() and sleep() are called.
Owner == "e1"

\* this._interval ?? 1000, in ticks of 1000 ms.
DefaultWait == 1

Min(a, b) == IF a <= b THEN a ELSE b

\* let waitTime = this._interval ?? 1000
WaitTime(e) == IF interval[e] = Undefined THEN DefaultWait ELSE interval[e]

\* const remaining = timeout - elapsed, elapsed = performance.now() - start
Remaining(start) == swTimeout - (PerformanceNow - start)

\* A loop that never stops signaling.
TimeoutNeverReached(remaining) == FALSE

\* if (remaining <= 0) return await action
TimeoutReached(remaining) == remaining <= 0

\* Whatever the helpers do not touch.
notSwVars == <<now, dirExists, files, emitterVars, hcVars, ctorArg, setterArg,
              setterThrew, stopped, slVars, fsVars, appVars>>

\* The head of the while (true) loop, entered with `start`: either the
\* timeout is reached and the action is awaited alone, or a timer is armed.
LoopHead(start) ==
    IF swTimeout # Undefined /\ TimeoutReached(Remaining(start))
    THEN /\ swPc' = "awaiting"
         /\ swDue' = NoTime
    ELSE /\ swPc' = "racing"
         /\ swDue' = PerformanceNow +
                       IF swTimeout # Undefined
                       THEN Min(WaitTime(Owner), Remaining(start))
                       ELSE WaitTime(Owner)

\* signalWhile(action, timeout) is called: it is about to call signal().
SignalWhile(timeout) ==
    /\ swPc = "idle"
    /\ TotalCalls < MaxCalls
    /\ swPc' = "first"
    /\ swTimeout' = timeout
    /\ swBegan' = now
    /\ action' = "pending"
    /\ swCall' = Len(calls[Owner]) + 1
    /\ swSignalAt' = <<now>>
    /\ UNCHANGED <<swStart, swDue, swResult, swOutcome, notSwVars>>

\* signalWhile has reached `await this.signal()` and the call is not made yet.
SwWantsSignal == swPc \in {"first", "signal"} /\ Len(calls[Owner]) < swCall

\* The signal() call signalWhile awaits has settled.
SwSignalSettled ==
    /\ swPc \in {"first", "signal"}
    /\ swCall \in CallsOf(Owner)
    /\ calls[Owner][swCall].st # "pending"

\* The continuation of `await this.signal()`.
SwSignalDone ==
    /\ SwSignalSettled
    /\ IF calls[Owner][swCall].st = "rejected"
       THEN \* the rejection of signal() leaves signalWhile
            /\ swPc' = "threw"
            /\ swOutcome' = "storeError"
            /\ UNCHANGED <<swStart, swDue>>
       ELSE IF swPc = "first"
       THEN /\ swStart' = PerformanceNow
            /\ LoopHead(PerformanceNow)
            /\ UNCHANGED swOutcome
       ELSE IF swResult # "timeoutObj"
       THEN /\ swPc' = "returned"
            /\ swOutcome' = "value"
            /\ UNCHANGED <<swStart, swDue>>
       ELSE /\ LoopHead(swStart)
            /\ UNCHANGED <<swStart, swOutcome>>
    /\ UNCHANGED <<action, swTimeout, swBegan, swCall, swResult, swSignalAt, notSwVars>>

\* setTimeout(resolve, waitTime, timeoutObj) fires, at or after its due time:
\* Promise.race returns timeoutObj and signal() is called next.
SwTimer ==
    /\ swPc = "racing"
    /\ action = "pending"
    /\ now >= swDue
    /\ TotalCalls < MaxCalls
    /\ swPc' = "signal"
    /\ swResult' = "timeoutObj"
    /\ swCall' = Len(calls[Owner]) + 1
    /\ swSignalAt' = Append(swSignalAt, now)
    /\ UNCHANGED <<action, swTimeout, swBegan, swStart, swDue, swOutcome, notSwVars>>

\* Promise.race settles with the action: its value is kept in `result` and
\* signal() is called next, or its rejection leaves signalWhile.
SwRaceAction ==
    /\ swPc = "racing"
    /\ action # "pending"
    /\ IF action = "resolved"
       THEN /\ TotalCalls < MaxCalls
            /\ swPc' = "signal"
            /\ swResult' = "value"
            /\ swCall' = Len(calls[Owner]) + 1
            /\ swSignalAt' = Append(swSignalAt, now)
            /\ UNCHANGED swOutcome
       ELSE /\ swPc' = "threw"
            /\ swOutcome' = "actionError"
            /\ UNCHANGED <<swResult, swCall, swSignalAt>>
    /\ UNCHANGED <<action, swTimeout, swBegan, swStart, swDue, notSwVars>>

\* return await action
SwAwaitDone ==
    /\ swPc = "awaiting"
    /\ action # "pending"
    /\ swPc' = IF action = "resolved" THEN "returned" ELSE "threw"
    /\ swOutcome' = IF action = "resolved" THEN "value" ELSE "actionError"
    /\ UNCHANGED <<action, swTimeout, swBegan, swStart, swDue, swCall, swResult,
                   swSignalAt, notSwVars>>

\* The operation handed to signalWhile resolves or rejects.
ActionSettles(st) ==
    /\ action = "pending"
    /\ action' = st
    /\ UNCHANGED <<swPc, swTimeout, swBegan, swStart, swDue, swCall, swResult,
                   swOutcome, swSignalAt, notSwVars>>

\* A continuation of signalWhile is ready: it runs before the clock advances
\* and before any other callback of the process.
SwRunnable ==
    \/ SwWantsSignal
    \/ SwSignalSettled
    \/ swPc \in {"racing", "awaiting"} /\ action # "pending"

\* ------------------------------------------------------------- sleep
notSlVars == <<now, dirExists, files, emitterVars, hcVars, ctorArg, setterArg,
              setterThrew, stopped, swVars, fsVars, appVars>>

\* const wait = Math.min(ms, this._interval ?? 1000)
Wait(ms) == Min(ms, WaitTime(Owner))

\* sleep(ms) is called: it is about to call signal().
Sleep(ms) ==
    /\ slPc = "idle"
    /\ TotalCalls < MaxCalls
    /\ slPc' = "signal"
    /\ slArg' = ms
    /\ slMs' = ms
    /\ slWait' = 0
    /\ slCall' = Len(calls[Owner]) + 1
    /\ slSignals' = 1
    /\ UNCHANGED <<slWaits, slDue, notSlVars>>

\* sleep has reached `await this.signal()` and the call is not made yet.
SlWantsSignal == slPc = "signal" /\ Len(calls[Owner]) < slCall

\* The signal() call sleep awaits has settled.
SlSignalSettled ==
    /\ slPc = "signal"
    /\ slCall \in CallsOf(Owner)
    /\ calls[Owner][slCall].st # "pending"

\* The continuation of `await this.signal()`: ms -= wait (nothing was waited
\* before the first call), then the test of the loop and the next timer.
SlSignalDone ==
    /\ SlSignalSettled
    /\ IF calls[Owner][slCall].st = "rejected"
       THEN /\ slPc' = "threw"
            /\ UNCHANGED <<slMs, slWait, slWaits, slDue>>
       ELSE /\ slMs' = slMs - slWait
            /\ IF slMs' > 0
               THEN /\ slPc' = "waiting"
                    /\ slWait' = Wait(slMs')
                    /\ slWaits' = Append(slWaits, Wait(slMs'))
                    /\ slDue' = now + Wait(slMs')
               ELSE /\ slPc' = "returned"
                    /\ slWait' = 0
                    /\ UNCHANGED <<slWaits, slDue>>
    /\ UNCHANGED <<slArg, slCall, slSignals, notSlVars>>

\* setTimeout(resolve, wait) fires, at or after its due time: signal() is
\* called next.
SlTimer ==
    /\ slPc = "waiting"
    /\ now >= slDue
    /\ TotalCalls < MaxCalls
    /\ slPc' = "signal"
    /\ slCall' = Len(calls[Owner]) + 1
    /\ slSignals' = slSignals + 1
    /\ UNCHANGED <<slArg, slMs, slWait, slWaits, slDue, notSlVars>>

\* A continuation of sleep is ready to run.
SlRunnable == SlWantsSignal \/ SlSignalSettled

\* ------------------------------------------------------------- one file on disk
\* writeFileJson and readFileJson on one heartbeat file, at the level of the
\* directory entry and the inodes.  writeFileAtomic writes the record to a
\* temporary file beside the target and renames it over the target;
\* fs.promises.readFile opens the target and reads it to its end.
notFsVars == <<now, dirExists, files, emitterVars, hcVars, ctorArg, setterArg,
              setterThrew, stopped, swVars, slVars, appVars>>

\* path.join(dataDirPath, fileName)
TargetFile == "file"

\* A write that goes to the target itself.
InPlace == "file"

\* The temporary file of writeFileAtomic: the target's path with a suffix.
TempFile == "temp"

\* rename(from, to): the entry `to` now names the inode of `from`.
Rename(from, to) ==
    IF from = to THEN dirEntry
    ELSE [dirEntry EXCEPT ![to] = dirEntry[from], ![from] = 0]

\* writeFileAtomic(filePath, JSON.stringify(content)) creates its temporary.
AwOpen ==
    /\ awPc = "idle"
    /\ awN < MaxAtomicWrites
    /\ awN' = awN + 1
    /\ awPc' = "writing"
    /\ written' = [written EXCEPT ![awN + 1] = 0]
    /\ dirEntry' = [dirEntry EXCEPT ![TempFile] = awN + 1]
    /\ UNCHANGED <<rdPc, rdInode, rdBuf, notFsVars>>

\* It writes the next piece of the record.
AwWrite ==
    /\ awPc = "writing"
    /\ written[awN] < RecordLen
    /\ written' = [written EXCEPT ![awN] = @ + 1]
    /\ UNCHANGED <<dirEntry, awPc, awN, rdPc, rdInode, rdBuf, notFsVars>>

\* The record is complete: the temporary is renamed over the target.
AwRename ==
    /\ awPc = "writing"
    /\ written[awN] = RecordLen
    /\ dirEntry' = Rename(TempFile, TargetFile)
    /\ awPc' = "idle"
    /\ UNCHANGED <<written, awN, rdPc, rdInode, rdBuf, notFsVars>>

\* The write fails: the temporary is unlinked and writeFileJson rejects.
AwFail ==
    /\ awPc = "writing"
    /\ dirEntry' = [dirEntry EXCEPT ![TempFile] = 0]
    /\ awPc' = "idle"
    /\ UNCHANGED <<written, awN, rdPc, rdInode, rdBuf, notFsVars>>

\* deleteFile: fs.promises.rm(filePath, {force: true}).
Rm ==
    /\ dirEntry[TargetFile] # 0
    /\ dirEntry' = [dirEntry EXCEPT ![TargetFile] = 0]
    /\ UNCHANGED <<written, awPc, awN, rdPc, rdInode, rdBuf, notFsVars>>

\* readFileJson: fs.promises.readFile(filePath) opens the file; ENOENT makes
\* readFileJson return undefined.
RdOpen ==
    /\ rdPc \in {"idle", "done"}
    /\ rdInode' = dirEntry[TargetFile]
    /\ rdBuf' = <<>>
    /\ rdPc' = IF dirEntry[TargetFile] = 0 THEN "done" ELSE "reading"
    /\ UNCHANGED <<dirEntry, written, awPc, awN, notFsVars>>

\* readFile reads the next piece of the inode it opened.
RdRead ==
    /\ rdPc = "reading"
    /\ Len(rdBuf) < written[rdInode]
    /\ rdBuf' = Append(rdBuf, <<rdInode, Len(rdBuf) + 1>>)
    /\ UNCHANGED <<dirEntry, written, awPc, awN, rdPc, rdInode, notFsVars>>

\* readFile reaches the end of the file: the content is what it has read.
RdEof ==
    /\ rdPc = "reading"
    /\ Len(rdBuf) = written[rdInode]
    /\ rdPc' = "done"
    /\ UNCHANGED <<dirEntry, written, awPc, awN, rdInode, rdBuf, notFsVars>>

\* ------------------------------------------------------------- single-app heartbeat
\* index.ts: one heartbeat for the whole app, signalled by the task process
\* with signalHeartbeat() and checked by healthcheck(), which the container's
\* HEALTHCHECK command runs either in a process of its own each time or
\* repeatedly in one process.  The store has no I/O fault here.
notAppVars == <<now, dirExists, files, emitterVars, hcVars, ctorArg, setterArg,
               setterThrew, stopped, swVars, slVars, fsVars>>

\* getAppHeartbeat: return 'NONE', which no random token equals.
NONE == 0

\* crypto.randomBytes(16).toString('hex'): a value not written before.
RandomToken == IF heartbeatFile = NoFile THEN 1 ELSE heartbeatFile.heartbeat + 1

\* signalHeartbeat: !interval || lastHeartbeatTimestamp == null ||
\* lastHeartbeatTimestamp + interval <= performance.now(), in the task process.
AppShouldSignal(i) ==
    \/ i = Undefined
    \/ i = 0
    \/ appLastHeartbeatTimestamp = NoTime
    \/ appLastHeartbeatTimestamp + i <= PerformanceNow

\* signalHeartbeat(interval) up to its first await: it starts a write unless
\* the call is debounced or a write is in flight.
SignalHeartbeat(i) ==
    /\ RandomToken <= MaxBeats
    /\ appCurrentHeartbeat' = (appCurrentHeartbeat \/ AppShouldSignal(i))
    /\ UNCHANGED <<heartbeatFile, appLastHeartbeatTimestamp, lastSeenFile,
                   lastSeenWrittenAt, timeOrigin, ahPc, ahStale, ahCurrent,
                   ahLastSeen, ahPayload, ahResult, ahRuns, notAppVars>>

\* newAppHeartbeat: writeFileContent completed, then the continuations.
NewAppHeartbeat ==
    /\ appCurrentHeartbeat
    /\ heartbeatFile' = [heartbeat |-> RandomToken]
    /\ appLastHeartbeatTimestamp' = PerformanceNow
    /\ appCurrentHeartbeat' = FALSE
    /\ UNCHANGED <<lastSeenFile, lastSeenWrittenAt, timeOrigin, ahPc, ahStale,
                   ahCurrent, ahLastSeen, ahPayload, ahResult, ahRuns, notAppVars>>

\* performance.now() in the process that runs healthcheck(): the time since
\* that process started.
CheckerPerformanceNow == now - timeOrigin

\* healthcheck(staleInterval) is called, in a process started for it
\* (`healthcheck().then(process.exit)` as the HEALTHCHECK command) or in the
\* process that made the previous invocation; both reads are issued.
AppHealthcheck(stale, freshProcess) ==
    /\ ahPc \in {"idle", "returned"}
    /\ ahRuns < MaxAppRuns
    /\ ahRuns' = ahRuns + 1
    /\ timeOrigin' = IF freshProcess THEN now ELSE timeOrigin
    /\ ahPc' = "reading"
    /\ ahStale' = stale
    /\ ahCurrent' = Undefined
    /\ ahLastSeen' = Pending
    /\ ahPayload' = NoFile
    /\ ahResult' = Undefined
    /\ UNCHANGED <<heartbeatFile, appCurrentHeartbeat, appLastHeartbeatTimestamp,
                   lastSeenFile, lastSeenWrittenAt, notAppVars>>

\* getAppHeartbeat completed.
GetAppHeartbeat ==
    /\ ahPc = "reading"
    /\ ahCurrent = Undefined
    /\ ahCurrent' = IF heartbeatFile = NoFile THEN NONE ELSE heartbeatFile.heartbeat
    /\ UNCHANGED <<heartbeatFile, appCurrentHeartbeat, appLastHeartbeatTimestamp,
                   lastSeenFile, lastSeenWrittenAt, timeOrigin, ahPc, ahStale,
                   ahLastSeen, ahPayload, ahResult, ahRuns, notAppVars>>

\* getLastSeenHeartbeat completed.
GetLastSeenHeartbeat ==
    /\ ahPc = "reading"
    /\ ahLastSeen = Pending
    /\ ahLastSeen' = lastSeenFile
    /\ UNCHANGED <<heartbeatFile, appCurrentHeartbeat, appLastHeartbeatTimestamp,
                   lastSeenFile, lastSeenWrittenAt, timeOrigin, ahPc, ahStale,
                   ahCurrent, ahPayload, ahResult, ahRuns, notAppVars>>

\* healthcheck: lastSeen == null || current !== lastSeen.heartbeat
AppIsNew(current, lastSeen) ==
    lastSeen = NoFile \/ current # lastSeen.heartbeat

\* healthcheck: performance.now() - lastSeen.timestamp < staleInterval
AppWithinStaleInterval(lastSeen, stale) ==
    CheckerPerformanceNow - lastSeen.timestamp < stale

\* setLastSeenHeartbeat: the record
LastSeenPayload(heartbeat) ==
    [heartbeat |-> heartbeat, timestamp |-> CheckerPerformanceNow]

\* The continuation of Promise.all: the record is written, or the
\* invocation returns 0 or 1.
AppJudge ==
    /\ ahPc = "reading"
    /\ ahCurrent # Undefined
    /\ ahLastSeen # Pending
    /\ IF AppIsNew(ahCurrent, ahLastSeen)
       THEN /\ ahPc' = "writing"
            /\ ahPayload' = LastSeenPayload(ahCurrent)
            /\ UNCHANGED ahResult
       ELSE /\ ahPc' = "returned"
            /\ ahResult' = IF AppWithinStaleInterval(ahLastSeen, ahStale) THEN 0 ELSE 1
            /\ UNCHANGED ahPayload
    /\ UNCHANGED <<heartbeatFile, appCurrentHeartbeat, appLastHeartbeatTimestamp,
                   lastSeenFile, lastSeenWrittenAt, timeOrigin, ahStale, ahCurrent,
                   ahLastSeen, ahRuns, notAppVars>>

\* setLastSeenHeartbeat completed: return 0
SetLastSeenHeartbeat ==
    /\ ahPc = "writing"
    /\ lastSeenFile' = ahPayload
    /\ lastSeenWrittenAt' = now
    /\ ahPc' = "returned"
    /\ ahResult' = 0
    /\ UNCHANGED <<heartbeatFile, appCurrentHeartbeat, appLastHeartbeatTimestamp,
                   timeOrigin, ahStale, ahCurrent, ahLastSeen, ahPayload, ahRuns,
                   notAppVars>>

\* ------------------------------------------------------------- init
\* Everything but the names and the intervals: no file, no call, no
\* invocation yet.
FreshStore ==
    /\ now = 0
    /\ dirExists = FALSE
    /\ files = [f \in FileNames |-> NoFile]
    /\ setterThrew = [e \in Emitters |-> FALSE]
    /\ stopped = [e \in Emitters |-> FALSE]
    /\ action = "none"
    /\ swPc = "idle"
    /\ swTimeout = Undefined
    /\ swBegan = NoTime
    /\ swStart = NoTime
    /\ swDue = NoTime
    /\ swCall = 0
    /\ swResult = "none"
    /\ swOutcome = "none"
    /\ swSignalAt = <<>>
    /\ slPc = "idle"
    /\ slArg = 0
    /\ slMs = 0
    /\ slWait = 0
    /\ slWaits = <<>>
    /\ slDue = NoTime
    /\ slCall = 0
    /\ slSignals = 0
    /\ dirEntry = [n \in {"file", "temp"} |-> 0]
    /\ written = [i \in 1..MaxAtomicWrites |-> 0]
    /\ awPc = "idle"
    /\ awN = 0
    /\ rdPc = "idle"
    /\ rdInode = 0
    /\ rdBuf = <<>>
    /\ heartbeatFile = NoFile
    /\ appCurrentHeartbeat = FALSE
    /\ appLastHeartbeatTimestamp = NoTime
    /\ lastSeenFile = NoFile
    /\ lastSeenWrittenAt = NoTime
    /\ timeOrigin = 0
    /\ ahPc = "idle"
    /\ ahStale = 0
    /\ ahCurrent = Undefined
    /\ ahLastSeen = Pending
    /\ ahPayload = NoFile
    /\ ahResult = Undefined
    /\ ahRuns = 0
    /\ currentHeartbeat = [e \in Emitters |-> NoWrite]
    /\ lastHeartbeatTimestamp = [e \in Emitters |-> NoTime]
    /\ writes = [e \in Emitters |-> <<>>]
    /\ calls = [e \in Emitters |-> <<>>]
    /\ lastCallAt = [e \in Emitters |-> NoTime]
    /\ lastSuccessAt = [e \in Emitters |-> NoTime]
    /\ hcPc = "idle"
    /\ hcStale = 0
    /\ hcListed = {}
    /\ hcTodo = {}
    /\ hcCur = NoModule
    /\ hcBeat = Pending
    /\ hcCheck = Pending
    /\ hcPayload = NoFile
    /\ hcVerdict = [b \in Modules |-> "none"]
    /\ hcResult = 0
    /\ hcFault = FALSE
    /\ hcRuns = 0

\* Two instances with names of their own.
Fresh ==
    /\ moduleName = [e \in Emitters |-> IF e = "e1" THEN "A" ELSE "B"]
    /\ FreshStore

\* new ModuleHeartbeat(moduleName, interval): this.interval = interval.
Init ==
    /\ ctorArg \in [Emitters -> {v \in {Undefined, 0, MaxInterval, Negative, NaN} :
                                   ValidInterval(v)}]
    /\ interval = ctorArg
    /\ setterArg = ctorArg
    /\ Fresh

EmitterNext ==
    \/ \E e \in Emitters : Signal(e)
    \/ \E e \in Emitters, w \in 1..MaxCalls : WriteMkdir(e, w)
    \/ \E e \in Emitters, w \in 1..MaxCalls : WriteAtomic(e, w)
    \/ \E e \in Emitters, w \in 1..MaxCalls : WriteFail(e, w)
    \/ \E e \in Emitters : Stop(e)
    \/ Tick

CheckerNext ==
    \/ \E stale \in 0..MaxStale : HcStart(stale)
    \/ \E b \in Modules : HcNext(b)
    \/ HcReadBeat
    \/ HcReadCheck
    \/ HcJudge
    \/ HcWriteDone
    \/ HcDeleteDone
    \/ HcIoError
    \/ HcReturn

\* The task process alone.
EmitterSpec == Init /\ [][EmitterNext]_vars

\* The task process and the checker process on one data directory.  The
\* emitters are constructed without an interval and issue at most
\* MaxCheckedCalls signal() calls.
CheckedInit == Init /\ interval = [e \in Emitters |-> Undefined]

Next ==
    \/ \E e \in Emitters : TotalCalls < MaxCheckedCalls /\ Signal(e)
    \/ \E e \in Emitters, w \in 1..MaxCalls : WriteMkdir(e, w)
    \/ \E e \in Emitters, w \in 1..MaxCalls : WriteAtomic(e, w)
    \/ \E e \in Emitters, w \in 1..MaxCalls : WriteFail(e, w)
    \/ \E e \in Emitters : Stop(e)
    \/ Tick
    \/ CheckerNext

Spec == CheckedInit /\ [][Next]_vars

\* The steps of a healthcheck() invocation after its start, the store working.
HcStep ==
    \/ \E b \in Modules : HcNext(b)
    \/ HcReadBeat
    \/ HcReadCheck
    \/ HcJudge
    \/ HcWriteDone
    \/ HcReturn

\* The task process beside a checker that is invoked again and again with one
\* staleInterval (the HEALTHCHECK instruction of the container), on a store
\* that works.  No module is stopped; the emitters issue at most MaxLiveCalls
\* signal() calls and may fall silent at any moment.
LiveNext ==
    \/ \E e \in Emitters : TotalCalls < MaxLiveCalls /\ Signal(e)
    \/ \E e \in Emitters, w \in 1..MaxCalls : WriteMkdir(e, w)
    \/ \E e \in Emitters, w \in 1..MaxCalls : WriteAtomic(e, w)
    \/ Tick
    \/ \E stale \in 0..MaxStale : HcRepeat(stale)
    \/ HcStep

\* Time advances, the checker is invoked again whenever it has finished, and
\* the I/O operations of an invocation complete.
LiveSpec ==
    /\ CheckedInit
    /\ [][LiveNext]_vars
    /\ WF_vars(Tick)
    /\ WF_vars(\E stale \in 0..MaxStale : HcRepeat(stale))
    /\ WF_vars(HcStep)

\* One signalWhile(action, timeout) invocation on the instance Owner, which
\* nothing else signals, on a store that may fail.
MaxTimeout == 2
Timeouts == {Undefined} \cup 0..MaxTimeout

WhileInit == Init /\ interval["e2"] = Undefined

WhileNext ==
    \/ \E timeout \in Timeouts : SignalWhile(timeout)
    \/ SwWantsSignal /\ Signal(Owner)
    \/ SwSignalDone
    \/ SwTimer
    \/ SwRaceAction
    \/ SwAwaitDone
    \/ \E st \in {"resolved", "rejected"} : ~SwRunnable /\ ActionSettles(st)
    \/ \E w \in 1..MaxCalls : ~SwRunnable /\ WriteMkdir(Owner, w)
    \/ \E w \in 1..MaxCalls : ~SwRunnable /\ WriteAtomic(Owner, w)
    \/ \E w \in 1..MaxCalls : ~SwRunnable /\ WriteFail(Owner, w)
    \/ ~SwRunnable /\ Tick

WhileSpec == WhileInit /\ [][WhileNext]_vars

\* One sleep(ms) invocation on the instance Owner, which nothing else signals,
\* on a store that may fail.
MaxSleep == 2

SleepNext ==
    \/ \E ms \in 0..MaxSleep : Sleep(ms)
    \/ SlWantsSignal /\ Signal(Owner)
    \/ SlSignalDone
    \/ SlTimer
    \/ \E w \in 1..MaxCalls : ~SlRunnable /\ WriteMkdir(Owner, w)
    \/ \E w \in 1..MaxCalls : ~SlRunnable /\ WriteAtomic(Owner, w)
    \/ \E w \in 1..MaxCalls : ~SlRunnable /\ WriteFail(Owner, w)
    \/ ~SlRunnable /\ Tick

SleepSpec == WhileInit /\ [][SleepNext]_vars

\* The instance Owner reconfigured at any moment through the interval setter,
\* with valid and invalid values, while it signals on a store that may fail.
IntervalValues == {Undefined, 0, MaxInterval, Negative, NaN}

ConfigNext ==
    \/ \E value \in IntervalValues : SetInterval(Owner, value)
    \/ Signal(Owner)
    \/ \E w \in 1..MaxCalls : WriteMkdir(Owner, w)
    \/ \E w \in 1..MaxCalls : WriteAtomic(Owner, w)
    \/ \E w \in 1..MaxCalls : WriteFail(Owner, w)
    \/ Tick

ConfigSpec == WhileInit /\ [][ConfigNext]_vars

\* The constructor that defaults the interval: this.interval = interval ?? 2000,
\* in ticks of 1000 ms.
DefaultInterval == 2

ConstructedInterval(arg) == IF arg = Undefined THEN DefaultInterval ELSE arg

DefaultedInit ==
    /\ ctorArg \in [Emitters -> {v \in {Undefined, 0, MaxInterval, Negative, NaN} :
                                   ValidInterval(ConstructedInterval(v))}]
    /\ ctorArg["e2"] = Undefined
    /\ interval = [e \in Emitters |-> ConstructedInterval(ctorArg[e])]
    /\ setterArg = interval
    /\ Fresh

\* The instance Owner built by that constructor, reconfigured and signaling.
DefaultedSpec == DefaultedInit /\ [][ConfigNext]_vars

\* One writer (the emitter's writeFileJson calls, one at a time), stop(), and
\* one reader (the checker's readFileJson calls) on one heartbeat file.
AtomicNext ==
    \/ AwOpen
    \/ AwWrite
    \/ AwRename
    \/ AwFail
    \/ Rm
    \/ RdOpen
    \/ RdRead
    \/ RdEof

AtomicSpec == CheckedInit /\ [][AtomicNext]_vars

\* Two instances constructed with one module name: both write the same
\* Heartbeat Record, each with its own _currentHeartbeat.
SharedInit ==
    /\ ctorArg \in [Emitters -> {v \in {Undefined, 0, MaxInterval, Negative, NaN} :
                                   ValidInterval(v)}]
    /\ interval = ctorArg
    /\ setterArg = ctorArg
    /\ moduleName = [e \in Emitters |-> "A"]
    /\ FreshStore

SharedSpec == SharedInit /\ [][EmitterNext]_vars

\* The emitters with no signal() call issued once stop() has been called on
\* them: the writes already in flight go on and settle.
StopNext ==
    \/ \E e \in Emitters : ~stopped[e] /\ Signal(e)
    \/ \E e \in Emitters, w \in 1..MaxCalls : WriteMkdir(e, w)
    \/ \E e \in Emitters, w \in 1..MaxCalls : WriteAtomic(e, w)
    \/ \E e \in Emitters, w \in 1..MaxCalls : WriteFail(e, w)
    \/ \E e \in Emitters : Stop(e)
    \/ Tick

StopSpec == Init /\ [][StopNext]_vars

\* The single-app heartbeat of index.ts: the task process and the
\* HEALTHCHECK invocations.
AppNext ==
    \/ \E i \in {Undefined, 0, MaxInterval} : SignalHeartbeat(i)
    \/ NewAppHeartbeat
    \/ \E stale \in 0..MaxStale, freshProcess \in BOOLEAN :
          AppHealthcheck(stale, freshProcess)
    \/ GetAppHeartbeat
    \/ GetLastSeenHeartbeat
    \/ AppJudge
    \/ SetLastSeenHeartbeat
    \/ Tick

AppSpec == CheckedInit /\ [][AppNext]_vars

\* ------------------------------------------------------------- properties
\* A step in which emitter e issues a signal() call, and what the call did.
IssuesCall(e) == Len(calls'[e]) = Len(calls[e]) + 1
NewKind(e) == calls'[e][Len(calls'[e])].kind

\* A step in which write w of emitter e settles.
Completes(e, w) == w \in InFlight(e) /\ writes'[e][w] = "ok"
Fails(e, w) == w \in InFlight(e) /\ writes'[e][w] = "failed"

\* The emitter's most recently settled write failed.
PrevFailed(e) ==
    /\ Settled(e) # {}
    /\ \E w \in Settled(e) : /\ \A v \in Settled(e) : v <= w
                             /\ writes[e][w] = "failed"

\* No successful write of e completed less than interval[e] before now.
DebounceElapsed(e) ==
    lastSuccessAt[e] = NoTime \/ now - lastSuccessAt[e] >= interval[e]

\* C1: an emitter instance never has more than one heartbeat write in flight,
\* whatever the interleaving of signal() calls, completions and failures.
C1_AtMostOneWriteInFlight ==
    \A e \in Emitters : Cardinality(InFlight(e)) <= 1

\* C1 witness: a second write is in flight after an earlier one settled, with a
\* concurrent call awaiting it.
C1_Witness ==
    \E e \in Emitters :
        /\ Cardinality(InFlight(e)) = 1
        /\ Settled(e) # {}
        /\ \E c \in PendingCalls(e) : calls[e][c].kind = "joined"

\* C2: signal() calls of one emitter that are pending together all await one
\* write, every write was started by exactly one call, and every call that
\* passed the debounce test settles with the outcome of its write: pending
\* while it is in flight, resolved if it succeeded, rejected if it failed.
C2_SingleFlight ==
    \A e \in Emitters :
        /\ \A c1, c2 \in PendingCalls(e) : calls[e][c1].w = calls[e][c2].w
        /\ \A w \in WritesOf(e) :
              Cardinality({c \in AwaitersOf(e, w) :
                              calls[e][c].kind = "started"}) = 1
        /\ \A c \in CallsOf(e) :
              calls[e][c].kind # "skipped" =>
                 /\ calls[e][c].w \in WritesOf(e)
                 /\ calls[e][c].st =
                       CASE writes[e][calls[e][c].w] = "ok" -> "resolved"
                         [] writes[e][calls[e][c].w] = "failed" -> "rejected"
                         [] OTHER -> "pending"

\* C2 witness: three calls were issued before any completed, one write was
\* started, and all three resolved with it.
C2_Witness ==
    \E e \in Emitters :
        /\ Len(writes[e]) = 1
        /\ writes[e][1] = "ok"
        /\ Cardinality(AwaitersOf(e, 1)) = 3
        /\ \A c \in AwaitersOf(e, 1) : calls[e][c].st = "resolved"

\* C3 as stated: with interval > 0, successful writes complete at least
\* interval apart, and every signal() call that comes at least interval after
\* the previous call produces a write (starts one or awaits the one in flight).
C3_AsStated ==
    [][\A e \in Emitters :
          interval[e] > 0 =>
             /\ (\E w \in WritesOf(e) : Completes(e, w)) => DebounceElapsed(e)
             /\ (/\ IssuesCall(e)
                 /\ lastCallAt[e] # NoTime
                 /\ now - lastCallAt[e] >= interval[e]) => NewKind(e) # "skipped"
      ]_vars

\* C3 amended: with interval > 0, successful writes complete at least interval
\* apart, and a signal() call produces a write (starts one or awaits the one in
\* flight) exactly when no successful write of the emitter completed less than
\* interval before the call; otherwise the call is ignored.
C3_Debounce ==
    [][\A e \in Emitters :
          interval[e] > 0 =>
             /\ (\E w \in WritesOf(e) : Completes(e, w)) => DebounceElapsed(e)
             /\ IssuesCall(e) => (NewKind(e) # "skipped" <=> DebounceElapsed(e))
      ]_vars

\* C3 witness: a debounced emitter wrote, ignored a call, and wrote again.
C3_Witness ==
    \E e \in Emitters :
        /\ interval[e] > 0
        /\ Cardinality(Succeeded(e)) = 2
        /\ \E c \in CallsOf(e) : calls[e][c].kind = "skipped"

\* C4: when a heartbeat write fails, every call awaiting it (the one that
\* started it and those that joined) is rejected, _currentHeartbeat is cleared
\* and _lastHeartbeatTimestamp keeps its value; and a signal() call issued when
\* the latest settled write failed and none is in flight starts a new write,
\* whatever the interval.
C4_FailedWrite ==
    [][\A e \in Emitters :
          /\ \A w \in WritesOf(e) :
                Fails(e, w) =>
                   /\ \A c \in AwaitersOf(e, w) : calls'[e][c].st = "rejected"
                   /\ currentHeartbeat'[e] = NoWrite
                   /\ lastHeartbeatTimestamp'[e] = lastHeartbeatTimestamp[e]
          /\ (IssuesCall(e) /\ PrevFailed(e) /\ InFlight(e) = {}) =>
                NewKind(e) = "started"
      ]_vars

\* C4 witness: a debounced emitter whose write failed with two calls awaiting
\* it, both rejected, followed by a call that started a second write.
C4_Witness ==
    \E e \in Emitters :
        /\ interval[e] > 0
        /\ Len(writes[e]) = 2
        /\ writes[e][1] = "failed"
        /\ Cardinality({c \in AwaitersOf(e, 1) : calls[e][c].st = "rejected"}) = 2

\* The value a read returned is the content of a file.
Present(x) == x # Pending /\ x # NoFile

\* The Observation Record of the module being processed.
ObservationFile == <<hcCur, CheckExt>>

\* A step in which isModuleHealthy examines the module being processed.
Judges == hcPc = "reading" /\ hcPc' \in {"loop", "writing"}

\* A step in which the .check write issued by isModuleHealthy completes.
Observes == hcPc = "writing" /\ hcPc' = "loop"

\* C5: when healthcheck() finds a heartbeat whose token differs from the token
\* of the module's Observation Record (the emitter completed a write since the
\* record was made), then whatever staleInterval is and however old the record
\* is, it overwrites the record with that token and the current time and
\* reports the module healthy.
C5_Freshness ==
    [][/\ (Judges /\ Present(hcBeat) /\ Present(hcCheck)
              /\ hcBeat.token # hcCheck.token) =>
             /\ hcPc' = "writing"
             /\ hcPayload' = [token |-> hcBeat.token, timestamp |-> now]
       /\ (Observes /\ Present(hcCheck)) =>
             /\ files'[ObservationFile] = hcPayload
             /\ hcVerdict'[hcCur] = "healthy"
             /\ hcResult' = hcResult
      ]_vars

\* C5 witness: the second invocation, run with staleInterval 0 on an
\* observation made earlier, met a new token, rewrote the record with it and
\* the current time, and reported the module healthy.
C5_Witness ==
    /\ hcPc = "loop"
    /\ hcRuns = 2
    /\ Present(hcBeat)
    /\ Present(hcCheck)
    /\ hcBeat.token # hcCheck.token
    /\ hcStale = 0
    /\ hcCheck.timestamp < now
    /\ hcVerdict[hcCur] = "healthy"
    /\ files[ObservationFile] = [token |-> hcBeat.token, timestamp |-> now]

C7_FirstContact ==
    [][/\ (Judges /\ Present(hcBeat) /\ hcCheck = NoFile) =>
             /\ hcPc' = "writing"
             /\ hcPayload' = [token |-> hcBeat.token, timestamp |-> now]
       /\ (Observes /\ hcCheck = NoFile) =>
             /\ files'[ObservationFile] = hcPayload
             /\ hcVerdict'[hcCur] = "healthy"
             /\ hcResult' = hcResult
      ]_vars

\* C7 witness: a run with staleInterval 0, started after time passed, met a
\* heartbeat without observation, created the record and reported healthy.
C7_Witness ==
    /\ hcPc = "loop"
    /\ Present(hcBeat)
    /\ hcCheck = NoFile
    /\ hcStale = 0
    /\ now > 0
    /\ hcVerdict[hcCur] = "healthy"
    /\ hcResult = 0
    /\ files[ObservationFile] = [token |-> hcBeat.token, timestamp |-> now]

\* The healthcheck() invocation has finished without a store I/O error.
Finished == hcPc \in {"returned", "threw"} /\ ~hcFault

\* C8 as stated: a healthcheck() invocation that finishes while no module has
\* ever signaled returns 0, a host whose data directory was never written to
\* included; and a module that never signaled gets no verdict.
C8_AsStated ==
    /\ (Finished /\ \A e \in Emitters : calls[e] = <<>>) =>
          (hcPc = "returned" /\ hcResult = 0)
    /\ \A e \in Emitters :
          (hcPc = "returned" /\ calls[e] = <<>>) =>
             hcVerdict[moduleName[e]] = "none"

\* A module of the listing whose .check file has no .beat file beside it.
Orphan(b) == <<b, CheckExt>> \in hcListed /\ <<b, BeatExt>> \notin hcListed

\* C9: a healthcheck() run that lists an Observation Record without the
\* module's Heartbeat Record (stop() deleted it) has deleted the Observation
\* Record when it returns, whatever its age, and has given the module no
\* verdict: a result of 1 comes from another module.
C9_OrphanCleanup ==
    hcPc = "returned" =>
       /\ \A b \in Modules :
             Orphan(b) => /\ files[<<b, CheckExt>>] = NoFile
                          /\ hcVerdict[b] = "none"
       /\ hcResult = 1 => \E b \in Modules : hcVerdict[b] = "unhealthy"

\* C9 witness: a run with staleInterval 0, started after time passed, returned
\* 0 having removed the Observation Record of a stopped module.
C9_Witness ==
    /\ hcPc = "returned"
    /\ hcStale = 0
    /\ now > 0
    /\ hcResult = 0
    /\ \E b \in Modules : /\ Orphan(b)
                          /\ files[<<b, CheckExt>>] = NoFile
                          /\ files[<<b, BeatExt>>] = NoFile

\* C10 as stated: a healthcheck() invocation that finishes returns 1 if some
\* module with a Heartbeat Record was judged unhealthy and 0 otherwise, in
\* whatever order the modules were listed.
C10_AsStated ==
    Finished =>
       /\ hcPc = "returned"
       /\ hcResult = IF \E b \in Modules : hcVerdict[b] = "unhealthy"
                     THEN 1 ELSE 0

\* The tokens the emitter of module b writes beside the periodic checker.
TokensOf(b) == {IF b = "A" THEN "e1" ELSE "e2"} \X (1..MaxLiveCalls)

\* The Heartbeat Record of b holds token k.
BeatHolds(b, k) ==
    /\ files[<<b, BeatExt>>] # NoFile
    /\ files[<<b, BeatExt>>].token = k

\* Token k of b is the one in its Heartbeat Record and in its Observation
\* Record: the checker has seen it and nothing newer was written.
Observed(b, k) ==
    /\ BeatHolds(b, k)
    /\ files[<<b, CheckExt>>] # NoFile
    /\ files[<<b, CheckExt>>].token = k

\* The clock of the model reaches the moment the observation of b is
\* staleInterval old.
CanExpire(b) == files[<<b, CheckExt>>].timestamp + hcStale <= MaxTime

\* The invocation returned 1 having judged b unhealthy.
ReturnedUnhealthy(b) ==
    hcPc = "returned" /\ hcResult = 1 /\ hcVerdict[b] = "unhealthy"

\* C11: when a module has written a token and signals no more (and is not
\* stopped) while healthcheck(staleInterval) keeps being invoked as time
\* advances, the token is observed, and then some invocation returns 1 unless
\* a new token is written; and once an invocation has returned 1 for the
\* module, every later invocation that returns returns 1 as long as no new
\* token is written.
C11_StuckTask ==
    \A b \in Modules :
        /\ \A k \in TokensOf(b) :
              BeatHolds(b, k) ~> (Observed(b, k) \/ ~BeatHolds(b, k))
        /\ \A k \in TokensOf(b) :
              (Observed(b, k) /\ CanExpire(b)) ~>
                 (ReturnedUnhealthy(b) \/ ~BeatHolds(b, k))
        /\ \A k \in TokensOf(b) :
              []((ReturnedUnhealthy(b) /\ Observed(b, k)) =>
                    []((hcPc = "returned" => hcResult = 1) \/ ~BeatHolds(b, k)))

\* C11 witness: an invocation returned 1 for a module whose observed token is
\* older than staleInterval > 0, after an earlier look at the same token.
C11_Witness ==
    \E b \in Modules :
        /\ ReturnedUnhealthy(b)
        /\ hcStale > 0
        /\ files[<<b, BeatExt>>] # NoFile
        /\ files[<<b, CheckExt>>] # NoFile
        /\ files[<<b, BeatExt>>].token = files[<<b, CheckExt>>].token
        /\ now - files[<<b, CheckExt>>].timestamp >= hcStale

\* The emitter that writes the Heartbeat Record of module b.
EmitterOf(b) == CHOOSE e \in Emitters : moduleName[e] = b

\* The latest heartbeat write of module b completed more than staleInterval
\* ago: the module signals less often than once per staleInterval.
Overdue(b) ==
    /\ lastSuccessAt[EmitterOf(b)] # NoTime
    /\ now - lastSuccessAt[EmitterOf(b)] > hcStale

SwSettled == swPc \in {"returned", "threw"}

\* C13 as stated: signalWhile settles only once the operation has, returns the
\* operation's result when the operation resolved and rejects with the
\* operation's own failure when the operation rejected, whatever the timeout
\* and whatever became of the heartbeat writes.
C13_AsStated ==
    SwSettled =>
        /\ action # "pending"
        /\ action = "resolved" => (swPc = "returned" /\ swOutcome = "value")
        /\ action = "rejected" => (swPc = "threw" /\ swOutcome = "actionError")

\* The signal() calls of the loop (every call but the initial one) that
\* signalWhile issued at or after `deadline`.
LateSignals(deadline) ==
    {i \in 2..Len(swSignalAt) : swSignalAt[i] >= deadline}

RECURSIVE Sum(_)
Sum(seq) == IF seq = <<>> THEN 0 ELSE Head(seq) + Sum(Tail(seq))

\* C15 as stated: sleep(ms) has issued one signal() call before waiting and
\* one after each chunk it has finished waiting; every chunk is at most the interval long (1000 ms
\* when the interval is unset); and the chunks add up to exactly ms: they
\* never exceed it, each of them is a positive share of it, and sleep returns
\* when they have reached it.
C15_AsStated ==
    /\ slPc = "waiting" => slSignals = Len(slWaits)
    /\ slPc \in {"signal", "returned", "threw"} => slSignals = Len(slWaits) + 1
    /\ \A i \in 1..Len(slWaits) : slWaits[i] <= WaitTime(Owner)
    /\ Sum(slWaits) <= slArg
    /\ \A i \in 1..Len(slWaits) : slWaits[i] > 0
    /\ slPc = "returned" => Sum(slWaits) = slArg

\* ------------------------------------------------------------- stop
\* stop() has completed since the latest successful write of e: the record it
\* wrote is gone.
Stopped(e) == Succeeded(e) # {} /\ files[HeartbeatFile(e)] = NoFile

\* C16 as stated: stop() deletes the Heartbeat Record, and a signal() call
\* made after stop() has completed, the first one included, recreates it: the
\* call starts a heartbeat write or joins the one in flight.
C16_AsStated ==
    [][\A e \in Emitters :
          /\ (files[HeartbeatFile(e)] # NoFile /\ files'[HeartbeatFile(e)] = NoFile) =>
                 Stopped(e)'
          /\ (Stopped(e) /\ IssuesCall(e)) => NewKind(e) # "skipped"]_vars

\* ------------------------------------------------------------- interval
\* The step assigns `value` to the interval of e through the setter.
Assigns(e, value) ==
    /\ setterArg'[e] = value
    /\ <<setterArg[e], setterThrew[e], interval[e]>> #
          <<setterArg'[e], setterThrew'[e], interval'[e]>>

\* C17: the interval of an emitter is unset or a number that is neither
\* negative nor NaN, at construction and after every assignment; the latest
\* assignment raised exactly if its value was negative or NaN, and an
\* assignment of such a value leaves the interval as it was; a signal() call
\* rejects only with the failure of the heartbeat write it awaited.
C17_IntervalValidation ==
    /\ [](\A e \in Emitters :
            /\ interval[e] = Undefined \/ (interval[e] # NaN /\ interval[e] >= 0)
            /\ setterThrew[e] <=> setterArg[e] \in {Negative, NaN}
            /\ \A c \in CallsOf(e) :
                   calls[e][c].st = "rejected" =>
                      /\ calls[e][c].w \in WritesOf(e)
                      /\ writes[e][calls[e][c].w] = "failed")
    /\ [][\A e \in Emitters : \A value \in {Negative, NaN} :
              Assigns(e, value) => (setterThrew'[e] /\ interval'[e] = interval[e])]_vars

\* An invalid assignment raised after a valid one had replaced the interval
\* given at construction, and the emitter has signaled since.
C17_Witness ==
    /\ setterThrew[Owner]
    /\ setterArg[Owner] = NaN
    /\ interval[Owner] = MaxInterval
    /\ ctorArg[Owner] # MaxInterval
    /\ \E c \in CallsOf(Owner) : calls[Owner][c].kind = "skipped"

\* ------------------------------------------------------------- always write
\* The step issues a signal() call of e while none of its writes is in flight.
IssuesCallAlone(e) == IssuesCall(e) /\ ~HasConcurrentHeartbeat(e)

\* The interval of e is the one its constructor gave it.
AsConstructed(e) ==
    /\ interval[e] = ConstructedInterval(ctorArg[e])
    /\ setterArg[e] = interval[e]

\* C18 as stated: an emitter whose interval is 0, or that was constructed
\* without an interval, starts a heartbeat write at every signal() call made
\* while no write is in flight.
C18_AsStated ==
    [][\A e \in Emitters :
          (/\ IssuesCallAlone(e)
           /\ interval[e] = 0 \/ (ctorArg[e] = Undefined /\ AsConstructed(e)))
          => NewKind(e) = "started"]_vars

\* C18: an emitter constructed without an interval holds the default of
\* 2000 ms; an emitter whose interval is 0 or unset (assigned undefined through
\* the setter) starts a heartbeat write at every signal() call made while no
\* write is in flight, however recently the previous write completed.
C18_AlwaysWrite ==
    /\ \A e \in Emitters : ctorArg[e] = Undefined => interval[e] = DefaultInterval
    /\ [][\A e \in Emitters :
              (IssuesCallAlone(e) /\ interval[e] \in {Undefined, 0})
              => NewKind(e) = "started"]_vars

\* An emitter constructed without an interval and then set to undefined
\* starts its second write in the tick in which the first one completed.
C18_Witness ==
    /\ ctorArg[Owner] = Undefined
    /\ interval[Owner] = Undefined
    /\ Len(writes[Owner]) = 2
    /\ writes[Owner][1] = "ok"
    /\ writes[Owner][2] = "mkdir"
    /\ lastHeartbeatTimestamp[Owner] = now

\* ------------------------------------------------------------- store errors
\* C19 as stated: a healthcheck() invocation that returns returns 0 or 1 and
\* met no store I/O failure; an invocation that fails met one, a missing file
\* or directory never being a failure.
C19_AsStated ==
    /\ hcPc = "returned" => (hcResult \in {0, 1} /\ ~hcFault)
    /\ hcPc = "threw" => hcFault

\* ------------------------------------------------------------- torn reads
\* The pieces read are the whole record written by writeFileAtomic call n.
WholeRecord(buf, n) ==
    /\ Len(buf) = RecordLen
    /\ \A i \in 1..Len(buf) : buf[i] = <<n, i>>

\* C20: whatever the interleaving of the writer's steps, stop() and the
\* reader's steps, a completed read of the heartbeat file yields absent or the
\* whole record of one write, the one the file held when it was opened; never
\* a part of a record.
C20_NoTornRead ==
    rdPc = "done" =>
        \/ rdInode = 0 /\ rdBuf = <<>>
        \/ rdInode \in 1..awN /\ WholeRecord(rdBuf, rdInode)

\* A read that began on the first record completed with that record after
\* the second one had been renamed over it.
C20_Witness ==
    /\ rdPc = "done"
    /\ rdInode = 1
    /\ WholeRecord(rdBuf, 1)
    /\ dirEntry[TargetFile] = 2

\* ------------------------------------------------------------- one name, two instances
\* The instances constructed with module name b.
InstancesOf(b) == {e \in Emitters : moduleName[e] = b}

\* The heartbeat writes in flight on the record of module b.
InFlightOn(b) == {<<e, w>> : e \in InstancesOf(b), w \in 1..MaxCalls} \cap
                 {ew \in Emitters \X (1..MaxCalls) : ew[2] \in InFlight(ew[1])}

\* C21 as stated: at most one heartbeat write is in flight on the record of a
\* module name, whichever instances constructed with that name issue them.
C21_AsStated == \A b \in Modules : Cardinality(InFlightOn(b)) <= 1

\* C21: the single-flight guard belongs to the instance.  The writes in
\* flight on the record of a module name are at most one for each instance
\* constructed with that name, and the record, when present, holds the token
\* of a write that one of these instances completed.
C21_PerInstance ==
    \A b \in Modules :
        /\ \A e \in InstancesOf(b) :
               Cardinality({ew \in InFlightOn(b) : ew[1] = e}) <= 1
        /\ Cardinality(InFlightOn(b)) <= Cardinality(InstancesOf(b))
        /\ files[<<b, BeatExt>>] # NoFile =>
               \E e \in InstancesOf(b) : \E w \in Succeeded(e) :
                   files[<<b, BeatExt>>].token = <<e, w>>

\* Both instances of one name have a write in flight, over a record one of
\* them wrote before.
C21_Witness ==
    /\ Cardinality(InFlightOn("A")) = 2
    /\ files[<<"A", BeatExt>>] # NoFile

\* ------------------------------------------------------------- ownership
\* The step changes the file f.
Changes(f) == files'[f] # files[f]

\* C22: a step that creates, overwrites or deletes a Heartbeat Record is no
\* step of healthcheck(), and a step that creates, overwrites or deletes an
\* Observation Record is a step of healthcheck() and no step of an emitter.
C22_SingleWriter ==
    [][\A b \in Modules :
          /\ Changes(<<b, BeatExt>>) => hcVars' = hcVars
          /\ Changes(<<b, CheckExt>>) =>
                 (hcVars' # hcVars /\ emitterVars' = emitterVars)]_vars

\* The checker has removed an orphaned Observation Record while the module's
\* emitter has written a new Heartbeat Record since the listing.
C22_Witness ==
    \E b \in Modules :
        /\ Orphan(b)
        /\ hcPc \in {"loop", "returned"}
        /\ b \notin hcTodo
        /\ files[<<b, CheckExt>>] = NoFile
        /\ files[<<b, BeatExt>>] # NoFile

\* ------------------------------------------------------------- observation records
\* The tokens the emitters of module b have written so far.
TokensWritten(b) == {<<e, w>> : e \in InstancesOf(b), w \in 1..MaxCalls} \cap
                    {ew \in Emitters \X (1..MaxCalls) : ew[2] \in Succeeded(ew[1])}

\* C23: an Observation Record exists for a module only if a healthcheck()
\* invocation has run and the module has completed a heartbeat write, and its
\* token is one the module's emitter wrote, no later than the observation.
C23_ObservationProvenance ==
    \A b \in Modules :
        files[<<b, CheckExt>>] # NoFile =>
            /\ hcRuns >= 1
            /\ files[<<b, CheckExt>>].token \in TokensWritten(b)
            /\ files[<<b, CheckExt>>].timestamp <= now

\* An Observation Record outlives the record it observed: the module has
\* been stopped, or has written a newer token.
C23_Witness ==
    \E b \in Modules :
        /\ files[<<b, CheckExt>>] # NoFile
        /\ files[<<b, BeatExt>>] = NoFile
        /\ Cardinality(TokensWritten(b)) = 1

\* ------------------------------------------------------------- whole run
\* C24: a healthcheck() run goes through every listed module, also after one
\* was found unhealthy: when it returns nothing is left to visit, every module
\* listed with a Heartbeat Record has a verdict and every listed orphan is
\* deleted; and a module found with a new token has its Observation Record
\* written with that token whatever the result so far is.
C24_WholeRun ==
    /\ [](hcPc = "returned" =>
            /\ hcTodo = {}
            /\ \A b \in Modules :
                  /\ <<b, BeatExt>> \in hcListed => hcVerdict[b] # "none"
                  /\ Orphan(b) => files[<<b, CheckExt>>] = NoFile)
    /\ [][/\ (Judges /\ Present(hcBeat) /\ IsNewHeartbeat(hcBeat, hcCheck)) =>
               /\ hcPc' = "writing"
               /\ hcPayload'.token = hcBeat.token
          /\ Observes =>
               /\ files'[<<hcCur, CheckExt>>] = hcPayload
               /\ hcResult' = hcResult]_vars

\* The module visited last had a new token and its Observation Record has
\* just been written, after the other module was found unhealthy.
C24_Witness ==
    /\ hcPc = "loop"
    /\ hcTodo = {}
    /\ hcResult = 1
    /\ \E b \in Modules :
          /\ hcCur = b
          /\ hcVerdict[b] = "healthy"
          /\ Present(files[<<b, CheckExt>>])
          /\ Present(files[<<b, BeatExt>>])
          /\ files[<<b, CheckExt>>].token = files[<<b, BeatExt>>].token
          /\ files[<<b, CheckExt>>].timestamp = now
          /\ \E c \in Modules \ {b} : hcVerdict[c] = "unhealthy"

\* ------------------------------------------------------------- stop during a run
\* C25: when the Heartbeat Record that the run listed is gone by the time the
\* run reads it, the module is judged healthy, the run goes on to the next
\* entry, and the step writes no file, leaves the result as it is and raises
\* no failure.
C25_StoppedAfterListing ==
    [][(/\ hcPc = "reading"
        /\ hcBeat = NoFile
        /\ hcCheck # Pending
        /\ <<hcCur, BeatExt>> \in hcListed
        /\ hcVars' # hcVars) =>
           /\ hcVerdict'[hcCur] = "healthy"
           /\ hcResult' = hcResult
           /\ hcPc' = "loop"
           /\ hcPayload' = NoFile
           /\ files' = files
           /\ hcFault' = FALSE]_vars

\* The run has returned 0 with the module judged healthy; the record it
\* listed is gone and no Observation Record exists for the module.
C25_Witness ==
    /\ hcPc = "returned"
    /\ hcResult = 0
    /\ \E b \in Modules :
          /\ <<b, BeatExt>> \in hcListed
          /\ <<b, CheckExt>> \notin hcListed
          /\ hcVerdict[b] = "healthy"
          /\ files[<<b, BeatExt>>] = NoFile
          /\ files[<<b, CheckExt>>] = NoFile
          /\ \E e \in Emitters : moduleName[e] = b /\ Succeeded(e) # {}

\* ------------------------------------------------------------- stop and writes in flight
\* C26 as stated: once stop() has resolved and no heartbeat write of the
\* instance is in flight, with no signal() issued since stop() was called,
\* the Heartbeat Record is absent.
C26_AsStated ==
    \A e \in Emitters :
        (stopped[e] /\ InFlight(e) = {}) => files[HeartbeatFile(e)] = NoFile

\* ------------------------------------------------------------- sleep returns
\* C27 as stated, by its variant: sleep(ms) returns because every turn of its
\* loop that goes on to wait again has taken something off ms, so that ms,
\* which the loop leaves at ms <= 0, is reached after finitely many turns.
C27_AsStated ==
    [][(slPc = "signal" /\ slPc' = "waiting" /\ slWaits # <<>>) =>
          slMs' < slMs]_vars

\* ------------------------------------------------------------- single-app healthcheck
\* The invocation returns by its staleness test: the heartbeat it read is the
\* one an earlier invocation recorded.
AppUnchanged == ahPc = "reading" /\ ahPc' = "returned"

\* C28 as stated: when the heartbeat is the one an earlier invocation
\* recorded and at least staleInterval has passed since that record was
\* written, the invocation returns 1, whichever process runs it.
C28_AsStated ==
    [][(AppUnchanged /\ ahCurrent # NONE /\ now - lastSeenWrittenAt >= ahStale) =>
          ahResult' = 1]_vars

\* The app has never signalled a heartbeat.
NeverSignaled == heartbeatFile = NoFile /\ ~appCurrentHeartbeat

\* C29 as stated: as long as the app has never signalled a heartbeat, every
\* invocation of healthcheck() returns 0.
C29_AsStated ==
    (NeverSignaled /\ ahPc = "returned") => ahResult = 0

====
